---- MODULE Spec2Model ----
(***************************************************************************)
(* EmitterState (src/src/emitterstate.cpp): the scoped formatting state of *)
(* the YAML emitter.  The state is the group stack, the settings with      *)
(* their two change logs, the transient node flags, the document counter   *)
(* and the sticky error.  Every operation of the class is an operator on a *)
(* state record (so that StartedScalar and StartedGroup can call           *)
(* StartedNode as the code does) and an action that applies it.            *)
(*                                                                         *)
(* Setting<T>, SettingChanges, Group, _Set and SetError are declared in    *)
(* headers that are not part of the sources at hand; they are modelled     *)
(* from the specification and from the comments at their call sites.       *)
(***************************************************************************)
EXTENDS Integers, Sequences, FiniteSets, TLC

\* ------------------------------------------------------------------ bounds
MaxDepth == 2
MaxNodes == 1
MaxTouched == 1

\* ------------------------------------------------------- program constants
\* std::numeric_limits<float>::max_digits10 and <double>::max_digits10
FloatMaxDigits10 == 9
DoubleMaxDigits10 == 17

VARIABLES
    m_isGood, m_lastError,
    settings,                  \* the Setting<T> members, by member name
    m_modifiedSettings,        \* local changes made since the last node
    m_globalModifiedSettings,  \* the global change log
    m_groups,                  \* the group stack, innermost last
    m_curIndent,
    m_hasAnchor, m_hasAlias, m_hasTag, m_hasNonContent,
    m_docCount,
    assertFailed,              \* an assert() of the code met a false condition
    ret,                       \* what the last setting writer returned
    opened, wellNested,        \* history: kinds opened and not yet closed by
                               \* a matching close; FALSE once a close did not
                               \* match
    mismatched,                \* history: a close popped a group of another kind
    skipped,                   \* history: the indents such closes returned
                               \* without subtracting from m_curIndent
    deepest,                   \* history: the deepest nesting reached
    lastGlobal,                \* history: the value last given to each setting
                               \* with lasting effect (its default at first)
    localSeen,                 \* history: the Local writes made in an open
                               \* container since the last call that starts a
                               \* scalar or a container or closes one of its kind
    closed,                    \* history: the Local writes made in the group
                               \* that the last call popped, if it popped one
    exampleStep,               \* history: how far the last calls follow the
                               \* indent example of the specification
    promoted,                  \* history: the settings whose last write was a
                               \* Local write made with no group open
    undone                     \* history: the settings with a single Local
                               \* write pending, and their values before it,
                               \* when the last call, a scalarStarted, ran

vars == <<m_isGood, m_lastError, settings, m_modifiedSettings,
          m_globalModifiedSettings, m_groups, m_curIndent, m_hasAnchor,
          m_hasAlias, m_hasTag, m_hasNonContent, m_docCount, assertFailed,
          ret, opened, wellNested, mismatched, skipped, deepest,
          lastGlobal,
          localSeen, closed, exampleStep, promoted, undone>>

\* ------------------------------------------------------------------ values
GroupTypes == {"Seq", "Map"}
Scopes == {"Local", "Global"}

UNEXPECTED_END_SEQ == "UNEXPECTED_END_SEQ"
UNEXPECTED_END_MAP == "UNEXPECTED_END_MAP"
INVALID_TAG == "INVALID_TAG"
INVALID_ANCHOR == "INVALID_ANCHOR"
UNMATCHED_GROUP_TAG == "UNMATCHED_GROUP_TAG"

\* EmitterState::EmitterState: the default global manipulators
DefaultSettings ==
    [m_charset |-> "EmitNonAscii",
     m_strFmt |-> "Auto",
     m_boolFmt |-> "TrueFalseBool",
     m_boolLengthFmt |-> "LongBool",
     m_boolCaseFmt |-> "LowerCase",
     m_nullFmt |-> "TildeNull",
     m_intFmt |-> "Dec",
     m_indent |-> 2,
     m_preCommentIndent |-> 2,
     m_postCommentIndent |-> 1,
     m_seqFmt |-> "Block",
     m_mapFmt |-> "Block",
     m_mapKeyFmt |-> "Auto",
     m_floatPrecision |-> FloatMaxDigits10,
     m_doublePrecision |-> DoubleMaxDigits10]

SettingNames == DOMAIN DefaultSettings

\* The state of one EmitterState object, as a record.
Cur ==
    [m_isGood |-> m_isGood, m_lastError |-> m_lastError,
     settings |-> settings,
     m_modifiedSettings |-> m_modifiedSettings,
     m_globalModifiedSettings |-> m_globalModifiedSettings,
     m_groups |-> m_groups, m_curIndent |-> m_curIndent,
     m_hasAnchor |-> m_hasAnchor, m_hasAlias |-> m_hasAlias,
     m_hasTag |-> m_hasTag, m_hasNonContent |-> m_hasNonContent,
     m_docCount |-> m_docCount, assertFailed |-> assertFailed]

Apply(s) ==
    /\ m_isGood' = s.m_isGood
    /\ m_lastError' = s.m_lastError
    /\ settings' = s.settings
    /\ m_modifiedSettings' = s.m_modifiedSettings
    /\ m_globalModifiedSettings' = s.m_globalModifiedSettings
    /\ m_groups' = s.m_groups
    /\ m_curIndent' = s.m_curIndent
    /\ m_hasAnchor' = s.m_hasAnchor
    /\ m_hasAlias' = s.m_hasAlias
    /\ m_hasTag' = s.m_hasTag
    /\ m_hasNonContent' = s.m_hasNonContent
    /\ m_docCount' = s.m_docCount
    /\ assertFailed' = s.assertFailed

\* ------------------------------------------- Setting<T> and SettingChanges
\* A change-log entry names a setting and the value its pop() puts back.
Change(name, value) == [name |-> name, value |-> value]

\* A change log.  restore() is all that ever reads a log, and what it does
\* to a setting depends on one entry only: in a log of undo entries (the
\* local changes) on the oldest entry for the setting, since the entries are
\* applied most recent first and a setting written twice goes back to the
\* value it had before the first write; in the global log on the newest,
\* since a global value stands until it is written again.  A log is kept as
\* the set of these deciding entries, one per setting.
Has(log, name) == \E e \in log : e.name = name

\* SettingChanges::push of an undo entry
pushLocal(log, name, old) ==
    IF Has(log, name) THEN log ELSE log \cup {Change(name, old)}

\* SettingChanges::push of a global value
pushGlobal(log, name, value) ==
    {e \in log : e.name # name} \cup {Change(name, value)}

\* SettingChanges::restore
restore(cfg, log) ==
    [name \in DOMAIN cfg |->
        IF Has(log, name) THEN (CHOOSE e \in log : e.name = name).value
        ELSE cfg[name]]

SetErrorBroken(s, error) ==
    [s EXCEPT !.m_isGood = FALSE, !.m_lastError = error]

\* first-error-wins: the error is recorded only if none was recorded before
SetError(s, error) ==
    IF s.m_isGood
    THEN [s EXCEPT !.m_isGood = FALSE, !.m_lastError = error]
    ELSE s

\* EmitterState::_Set
\*   Global: the write is recorded in the global log and the value is set;
\*   Local : the undo entry (the value before the write) is recorded in the
\*           local log; with no open container a Local write is a Global one.
Set(s, name, value, scope) ==
    IF scope = "Global" \/ s.m_groups = <<>>
    THEN [s EXCEPT !.settings[name] = value,
                   !.m_globalModifiedSettings = pushGlobal(@, name, value)]
    ELSE [s EXCEPT !.settings[name] = value,
                   !.m_modifiedSettings =
                       pushLocal(@, name, s.settings[name])]

\* Group::Group(type): a fresh group
Group(type) ==
    [type |-> type, flowType |-> "NoType", indent |-> 0, childCount |-> 0,
     longKey |-> FALSE, modifiedSettings |-> {}]

back(groups) == groups[Len(groups)]
pop_back(groups) == SubSeq(groups, 1, Len(groups) - 1)

\* ------------------------------------------------------------- the queries
CurGroupType(s) ==
    IF s.m_groups = <<>> THEN "NoType" ELSE back(s.m_groups).type

CurGroupFlowType(s) ==
    IF s.m_groups = <<>> THEN "NoType" ELSE back(s.m_groups).flowType

CurGroupIndent(s) ==
    IF s.m_groups = <<>> THEN 0 ELSE back(s.m_groups).indent

CurGroupChildCountBroken(s) ==
    IF s.m_groups = <<>> THEN 0 ELSE back(s.m_groups).childCount

CurGroupChildCount(s) ==
    IF s.m_groups = <<>> THEN s.m_docCount ELSE back(s.m_groups).childCount

CurGroupLongKey(s) ==
    IF s.m_groups = <<>> THEN FALSE ELSE back(s.m_groups).longKey

LastIndentBroken(s) ==
    IF Len(s.m_groups) <= 1 THEN 0
    ELSE s.m_curIndent - back(s.m_groups).indent

LastIndent(s) ==
    IF Len(s.m_groups) <= 1 THEN 0
    ELSE s.m_curIndent - s.m_groups[Len(s.m_groups) - 1].indent

GetFlowTypeBroken(s, groupType) ==
    IF groupType = "Seq" THEN s.settings.m_seqFmt ELSE s.settings.m_mapFmt

GetFlowType(s, groupType) ==
    \* force flow style if we're currently in a flow
    IF CurGroupFlowType(s) = "Flow" THEN "Flow"
    \* otherwise, go with what's asked of us
    ELSE IF groupType = "Seq" THEN s.settings.m_seqFmt
         ELSE s.settings.m_mapFmt

GetIndent(s) == s.settings.m_indent

\* ----------------------------------------------------- the transient flags
SetAnchor(s) == [s EXCEPT !.m_hasAnchor = TRUE]
SetAlias(s) == [s EXCEPT !.m_hasAlias = TRUE]
SetTag(s) == [s EXCEPT !.m_hasTag = TRUE]
SetNonContent(s) == [s EXCEPT !.m_hasNonContent = TRUE]

\* assert(!m_groups.empty()); assert(back()->type == Map)
SetLongKey(s) ==
    IF s.m_groups = <<>> THEN [s EXCEPT !.assertFailed = TRUE]
    ELSE [s EXCEPT !.m_groups[Len(s.m_groups)].longKey = TRUE,
                   !.assertFailed = @ \/ back(s.m_groups).type # "Map"]

ForceFlow(s) ==
    IF s.m_groups = <<>> THEN [s EXCEPT !.assertFailed = TRUE]
    ELSE [s EXCEPT !.m_groups[Len(s.m_groups)].flowType = "Flow"]

\* ------------------------------------------------------------ the lifecycle
StartedNodeBroken(s) ==
    LET s1 == IF s.m_groups = <<>>
              THEN [s EXCEPT !.m_docCount = @ + 1]
              ELSE [s EXCEPT !.m_groups[Len(s.m_groups)].childCount = @ + 1]
    IN [s1 EXCEPT !.m_hasAnchor = FALSE, !.m_hasAlias = FALSE,
                  !.m_hasTag = FALSE, !.m_hasNonContent = FALSE]

StartedNode(s) ==
    LET n == Len(s.m_groups)
        s1 == IF s.m_groups = <<>>
              THEN [s EXCEPT !.m_docCount = @ + 1]
              ELSE [s EXCEPT
                      !.m_groups[n].childCount = @ + 1,
                      !.m_groups[n].longKey =
                          IF (s.m_groups[n].childCount + 1) % 2 = 0
                          THEN FALSE ELSE @]
    IN [s1 EXCEPT !.m_hasAnchor = FALSE, !.m_hasAlias = FALSE,
                  !.m_hasTag = FALSE, !.m_hasNonContent = FALSE]

StartedDoc(s) ==
    [s EXCEPT !.m_hasAnchor = FALSE, !.m_hasTag = FALSE,
              !.m_hasNonContent = FALSE]

EndedDoc(s) ==
    [s EXCEPT !.m_hasAnchor = FALSE, !.m_hasTag = FALSE,
              !.m_hasNonContent = FALSE]

\* SettingChanges::clear: the recorded changes are undone and discarded
ClearModifiedSettings(s) ==
    [s EXCEPT !.settings = restore(s.settings, s.m_modifiedSettings),
              !.m_modifiedSettings = {}]

StartedScalarBroken(s) == StartedNode(s)

StartedScalar(s) == ClearModifiedSettings(StartedNode(s))

StartedGroupStale(s, type) ==
    LET s1 == StartedNode(s)
        lastGroupIndent ==
            IF s1.m_groups = <<>> THEN 0 ELSE back(s1.m_groups).indent
        pGroup == [Group(type) EXCEPT
                     !.modifiedSettings = s1.m_modifiedSettings,
                     !.flowType = IF GetFlowType(s1, type) = "Block"
                                  THEN "Block" ELSE "Flow",
                     !.indent = restore(s1.settings,
                                        s1.m_modifiedSettings).m_indent]
    IN [s1 EXCEPT !.m_curIndent = @ + lastGroupIndent,
                  !.m_modifiedSettings = {},
                  !.m_groups = Append(@, pGroup)]

StartedGroupFlat(s, type) ==
    LET s1 == StartedNode(s)
        pGroup == [Group(type) EXCEPT
                     !.modifiedSettings = s1.m_modifiedSettings,
                     !.flowType = IF GetFlowType(s1, type) = "Block"
                                  THEN "Block" ELSE "Flow",
                     !.indent = GetIndent(s1)]
    IN [s1 EXCEPT !.m_modifiedSettings = {},
                  !.m_groups = Append(@, pGroup)]

StartedGroupBroken(s, type) ==
    LET s1 == StartedNode(s)
        pGroup == [Group(type) EXCEPT
                     !.modifiedSettings = s1.m_modifiedSettings,
                     !.flowType = IF GetFlowType(s1, type) = "Block"
                                  THEN "Block" ELSE "Flow",
                     !.indent = GetIndent(s1)]
    IN [s1 EXCEPT !.m_curIndent = @ + GetIndent(s1),
                  !.m_modifiedSettings = {},
                  !.m_groups = Append(@, pGroup)]

StartedGroup(s, type) ==
    LET s1 == StartedNode(s)
        lastGroupIndent ==
            IF s1.m_groups = <<>> THEN 0 ELSE back(s1.m_groups).indent
        \* transfer settings (which last until this group is done)
        pGroup == [Group(type) EXCEPT
                     !.modifiedSettings = s1.m_modifiedSettings,
                     !.flowType = IF GetFlowType(s1, type) = "Block"
                                  THEN "Block" ELSE "Flow",
                     !.indent = GetIndent(s1)]
    IN [s1 EXCEPT !.m_curIndent = @ + lastGroupIndent,
                  !.m_modifiedSettings = {},
                  !.m_groups = Append(@, pGroup)]

\* EndedGroup on an empty stack: the close matches no open container
UnexpectedEndBroken(s, type) ==
    IF type = "Seq" THEN SetError(s, UNEXPECTED_END_MAP)
    ELSE SetError(s, UNEXPECTED_END_SEQ)

UnexpectedEndClears(s, type) ==
    LET s1 == IF type = "Seq" THEN SetError(s, UNEXPECTED_END_SEQ)
              ELSE SetError(s, UNEXPECTED_END_MAP)
    IN [s1 EXCEPT !.m_hasAnchor = FALSE, !.m_hasTag = FALSE,
                  !.m_hasNonContent = FALSE]

UnexpectedEnd(s, type) ==
    IF type = "Seq" THEN SetError(s, UNEXPECTED_END_SEQ)
    ELSE SetError(s, UNEXPECTED_END_MAP)

\* a tag or an anchor that no node took
PendingMarksBroken(s) ==
    LET s1 == IF s.m_hasAnchor THEN SetError(s, INVALID_ANCHOR) ELSE s
    IN IF s1.m_hasTag THEN SetError(s1, INVALID_TAG) ELSE s1

PendingMarks(s) ==
    LET s1 == IF s.m_hasTag THEN SetError(s, INVALID_TAG) ELSE s
    IN IF s1.m_hasAnchor THEN SetError(s1, INVALID_ANCHOR) ELSE s1

\* get rid of the current group; the settings transferred to it last until
\* it is done, so destroying it undoes them
PopGroup(s) ==
    [s EXCEPT !.m_groups = pop_back(@),
              !.settings = restore(@, back(s.m_groups).modifiedSettings)]

EndedGroup(s, type) ==
    IF s.m_groups = <<>> THEN UnexpectedEnd(s, type)
    ELSE
      LET s2 == PendingMarks(s)
          pFinishedGroup == back(s2.m_groups)
          s3 == PopGroup(s2)
      IN IF pFinishedGroup.type # type
         THEN SetError(s3, UNMATCHED_GROUP_TAG)
         ELSE
           \* reset old settings
           LET lastIndent ==
                   IF s3.m_groups = <<>> THEN 0 ELSE back(s3.m_groups).indent
               s4 == [s3 EXCEPT
                        !.assertFailed = @ \/ ~(s3.m_curIndent >= lastIndent),
                        !.m_curIndent = @ - lastIndent,
                        \* some global settings that we changed may
                        \* have been overridden by a local setting we
                        \* just popped, so we need to restore them
                        !.settings =
                            restore(@, s3.m_globalModifiedSettings)]
               s5 == ClearModifiedSettings(s4)
           IN [s5 EXCEPT !.m_hasAnchor = FALSE, !.m_hasTag = FALSE,
                         !.m_hasNonContent = FALSE]

\* -------------------------------------------------------- the setting writers
\* A writer yields the state after the call and the value it returns.
Accept(s, name, value, scope) == [s |-> Set(s, name, value, scope), ok |-> TRUE]
Reject(s) == [s |-> s, ok |-> FALSE]

SetOutputCharset(s, value, scope) ==
    IF value \in {"EmitNonAscii", "EscapeNonAscii", "EscapeAsJson"}
    THEN Accept(s, "m_charset", value, scope) ELSE Reject(s)

SetStringFormat(s, value, scope) ==
    IF value \in {"Auto", "SingleQuoted", "DoubleQuoted", "Literal"}
    THEN Accept(s, "m_strFmt", value, scope) ELSE Reject(s)

SetBoolFormat(s, value, scope) ==
    IF value \in {"OnOffBool", "TrueFalseBool", "YesNoBool"}
    THEN Accept(s, "m_boolFmt", value, scope) ELSE Reject(s)

SetBoolLengthFormat(s, value, scope) ==
    IF value \in {"LongBool", "ShortBool"}
    THEN Accept(s, "m_boolLengthFmt", value, scope) ELSE Reject(s)

SetBoolCaseFormat(s, value, scope) ==
    IF value \in {"UpperCase", "LowerCase", "CamelCase"}
    THEN Accept(s, "m_boolCaseFmt", value, scope) ELSE Reject(s)

SetNullFormat(s, value, scope) ==
    IF value \in {"LowerNull", "UpperNull", "CamelNull", "TildeNull"}
    THEN Accept(s, "m_nullFmt", value, scope) ELSE Reject(s)

SetIntFormat(s, value, scope) ==
    IF value \in {"Dec", "Hex", "Oct"}
    THEN Accept(s, "m_intFmt", value, scope) ELSE Reject(s)

SetIndentBroken(s, value, scope) ==
    IF value < 1 THEN Reject(s) ELSE Accept(s, "m_indent", value, scope)

SetIndent(s, value, scope) ==
    IF value <= 1 THEN Reject(s) ELSE Accept(s, "m_indent", value, scope)

SetPreCommentIndent(s, value, scope) ==
    IF value = 0 THEN Reject(s)
    ELSE Accept(s, "m_preCommentIndent", value, scope)

SetPostCommentIndent(s, value, scope) ==
    IF value = 0 THEN Reject(s)
    ELSE Accept(s, "m_postCommentIndent", value, scope)

SetFlowType(s, groupType, value, scope) ==
    IF value \in {"Block", "Flow"}
    THEN Accept(s, IF groupType = "Seq" THEN "m_seqFmt" ELSE "m_mapFmt",
                value, scope)
    ELSE Reject(s)

SetMapKeyFormat(s, value, scope) ==
    IF value \in {"Auto", "LongKey"}
    THEN Accept(s, "m_mapKeyFmt", value, scope) ELSE Reject(s)

SetFloatPrecision(s, value, scope) ==
    IF value > FloatMaxDigits10 THEN Reject(s)
    ELSE Accept(s, "m_floatPrecision", value, scope)

SetDoublePrecision(s, value, scope) ==
    IF value > DoubleMaxDigits10 THEN Reject(s)
    ELSE Accept(s, "m_doublePrecision", value, scope)

\* SetLocalValue: every writer is tried in turn with the same value
SetLocalValue(s, value) ==
    LET s1 == SetOutputCharset(s, value, "Local").s
        s2 == SetStringFormat(s1, value, "Local").s
        s3 == SetBoolFormat(s2, value, "Local").s
        s4 == SetBoolCaseFormat(s3, value, "Local").s
        s5 == SetBoolLengthFormat(s4, value, "Local").s
        s6 == SetNullFormat(s5, value, "Local").s
        s7 == SetIntFormat(s6, value, "Local").s
        s8 == SetFlowType(s7, "Seq", value, "Local").s
        s9 == SetFlowType(s8, "Map", value, "Local").s
    IN SetMapKeyFormat(s9, value, "Local").s

\* ----------------------------------------------------------------- history
NestSame == UNCHANGED <<opened, wellNested, mismatched, skipped, deepest>>

NestOpen(type) ==
    /\ wellNested' = wellNested
    /\ opened' = IF wellNested THEN Append(opened, type) ELSE <<>>
    /\ mismatched' = mismatched
    /\ skipped' = skipped
    /\ deepest' = IF Len(m_groups) + 1 > deepest
                  THEN Len(m_groups) + 1 ELSE deepest

NestClose(type) ==
    /\ IF wellNested /\ opened # <<>> /\ back(opened) = type
       THEN /\ wellNested' = TRUE
            /\ opened' = pop_back(opened)
       ELSE /\ wellNested' = FALSE
            /\ opened' = <<>>
    /\ mismatched' =
           (mismatched \/ (m_groups # <<>> /\ back(m_groups).type # type))
    /\ skipped' =
           IF Len(m_groups) >= 2 /\ back(m_groups).type # type
           THEN skipped + m_groups[Len(m_groups) - 1].indent
           ELSE skipped
    /\ deepest' = deepest

\* a call that neither writes a setting nor starts or closes anything
HistOther ==
    /\ UNCHANGED <<lastGlobal, localSeen, promoted>>
    /\ closed' = {}
    /\ undone' = {}
    /\ exampleStep' = 0

HistScalar ==
    /\ UNCHANGED <<lastGlobal, promoted>>
    /\ localSeen' = {}
    /\ closed' = {}
    /\ undone' = {[name |-> w.name, old |-> w.old] :
                      w \in {x \in localSeen : x.n = 1}}
    /\ exampleStep' = 0

\* the example: Global indent 4 (1), containerStarted (2), Local indent 8
\* (3), containerStarted (4), containerEnded of the nested container (5);
\* or, after (4), a further containerStarted (6) and the containerEnded of
\* that container (7)
HistOpen ==
    /\ UNCHANGED <<lastGlobal, promoted>>
    /\ localSeen' = {}
    /\ closed' = {}
    /\ undone' = {}
    /\ exampleStep' = IF exampleStep = 1 THEN 2
                      ELSE IF exampleStep = 3 THEN 4
                      ELSE IF exampleStep = 4 THEN 6 ELSE 0

HistClose(type) ==
    LET popped == m_groups # <<>>
        matched == popped /\ back(m_groups).type = type
    IN /\ UNCHANGED <<lastGlobal, promoted>>
       /\ localSeen' = IF matched THEN {} ELSE localSeen
       /\ undone' = {}
       /\ closed' = {[write |-> w, matched |-> matched] :
                         w \in {x \in localSeen : x.depth = Len(m_groups)}}
       /\ exampleStep' = IF exampleStep = 4 /\ matched THEN 5
                         ELSE IF exampleStep = 6 /\ matched THEN 7 ELSE 0

\* a writer called for setting name; ok is what it returned
HistWrite(name, value, scope, ok) ==
    /\ closed' = {}
    /\ undone' = {}
    /\ IF ~ok
       THEN /\ UNCHANGED <<lastGlobal, localSeen, promoted>>
            /\ exampleStep' = 0
       ELSE IF scope = "Global" \/ m_groups = <<>>
       THEN /\ lastGlobal' = [lastGlobal EXCEPT ![name] = value]
            /\ UNCHANGED localSeen
            /\ promoted' = IF scope = "Local" THEN promoted \cup {name}
                           ELSE promoted \ {name}
            /\ exampleStep' = IF name = "m_indent" /\ value = 4
                                    /\ scope = "Global"
                              THEN 1 ELSE 0
       ELSE /\ UNCHANGED lastGlobal
            /\ promoted' = promoted \ {name}
            /\ localSeen' =
                   {w \in localSeen : w.name # name} \cup
                   {[name |-> name, old |-> settings[name], new |-> value,
                     depth |-> Len(m_groups),
                     n |-> IF \E w \in localSeen : w.name = name
                           THEN 2 ELSE 1]}
            /\ exampleStep' = IF exampleStep = 2 /\ name = "m_indent"
                                    /\ value = 8
                              THEN 3 ELSE 0

\* ------------------------------------------------------------------ actions
\* Guards that keep the counters and the logs of a specification finite.
Depth(n) == Len(m_groups) < n

Nodes(docs, children) ==
    IF m_groups = <<>> THEN m_docCount < docs
    ELSE back(m_groups).childCount < children

Init ==
    /\ m_isGood = TRUE
    /\ m_lastError = ""
    /\ settings = DefaultSettings
    /\ m_modifiedSettings = {}
    /\ m_globalModifiedSettings = {}
    /\ m_groups = <<>>
    /\ m_curIndent = 0
    /\ m_hasAnchor = FALSE
    /\ m_hasAlias = FALSE
    /\ m_hasTag = FALSE
    /\ m_hasNonContent = FALSE
    /\ m_docCount = 0
    /\ assertFailed = FALSE
    /\ ret = TRUE
    /\ opened = <<>>
    /\ wellNested = TRUE
    /\ mismatched = FALSE
    /\ skipped = 0
    /\ deepest = 0
    /\ lastGlobal = DefaultSettings
    /\ localSeen = {}
    /\ closed = {}
    /\ exampleStep = 0
    /\ promoted = {}
    /\ undone = {}

Flag(s) == Apply(s) /\ UNCHANGED ret /\ NestSame /\ HistOther

SetAnchorAct == ~m_hasAnchor /\ Flag(SetAnchor(Cur))
SetAliasAct == ~m_hasAlias /\ Flag(SetAlias(Cur))
SetTagAct == ~m_hasTag /\ Flag(SetTag(Cur))
SetNonContentAct == ~m_hasNonContent /\ Flag(SetNonContent(Cur))

\* callers keep the contract: a group is open, and it is a map
SetLongKeyAct ==
    /\ m_groups # <<>>
    /\ back(m_groups).type = "Map"
    /\ Flag(SetLongKey(Cur))

ForceFlowAct ==
    /\ m_groups # <<>>
    /\ Flag(ForceFlow(Cur))

StartedNodeAct == Flag(StartedNode(Cur))
StartedDocAct == Flag(StartedDoc(Cur))
EndedDocAct == Flag(EndedDoc(Cur))
StartedScalarAct ==
    /\ Apply(StartedScalar(Cur))
    /\ UNCHANGED ret
    /\ NestSame
    /\ HistScalar

StartedGroupAct(type) ==
    /\ Apply(StartedGroup(Cur, type))
    /\ UNCHANGED ret
    /\ NestOpen(type)
    /\ HistOpen

EndedGroupAct(type) ==
    /\ Apply(EndedGroup(Cur, type))
    /\ UNCHANGED ret
    /\ NestClose(type)
    /\ HistClose(type)

Write(name, value, scope, r) ==
    /\ Apply(r.s)
    /\ ret' = r.ok
    /\ NestSame
    /\ HistWrite(name, value, scope, r.ok)

SetIndentAct(value, scope) ==
    Write("m_indent", value, scope, SetIndent(Cur, value, scope))

SetFlowTypeAct(groupType, value, scope) ==
    Write(IF groupType = "Seq" THEN "m_seqFmt" ELSE "m_mapFmt", value, scope,
          SetFlowType(Cur, groupType, value, scope))

Writers ==
    {"SetOutputCharset", "SetStringFormat", "SetBoolFormat",
     "SetBoolLengthFormat", "SetBoolCaseFormat", "SetNullFormat",
     "SetIntFormat", "SetIndent", "SetPreCommentIndent",
     "SetPostCommentIndent", "SetSeqFlowType", "SetMapFlowType",
     "SetMapKeyFormat", "SetFloatPrecision", "SetDoublePrecision"}

\* the setting each writer forwards to
Field(writer) ==
    CASE writer = "SetOutputCharset" -> "m_charset"
      [] writer = "SetStringFormat" -> "m_strFmt"
      [] writer = "SetBoolFormat" -> "m_boolFmt"
      [] writer = "SetBoolLengthFormat" -> "m_boolLengthFmt"
      [] writer = "SetBoolCaseFormat" -> "m_boolCaseFmt"
      [] writer = "SetNullFormat" -> "m_nullFmt"
      [] writer = "SetIntFormat" -> "m_intFmt"
      [] writer = "SetIndent" -> "m_indent"
      [] writer = "SetPreCommentIndent" -> "m_preCommentIndent"
      [] writer = "SetPostCommentIndent" -> "m_postCommentIndent"
      [] writer = "SetSeqFlowType" -> "m_seqFmt"
      [] writer = "SetMapFlowType" -> "m_mapFmt"
      [] writer = "SetMapKeyFormat" -> "m_mapKeyFmt"
      [] writer = "SetFloatPrecision" -> "m_floatPrecision"
      [] writer = "SetDoublePrecision" -> "m_doublePrecision"

Call(s, writer, value, scope) ==
    CASE writer = "SetOutputCharset" -> SetOutputCharset(s, value, scope)
      [] writer = "SetStringFormat" -> SetStringFormat(s, value, scope)
      [] writer = "SetBoolFormat" -> SetBoolFormat(s, value, scope)
      [] writer = "SetBoolLengthFormat" ->
             SetBoolLengthFormat(s, value, scope)
      [] writer = "SetBoolCaseFormat" -> SetBoolCaseFormat(s, value, scope)
      [] writer = "SetNullFormat" -> SetNullFormat(s, value, scope)
      [] writer = "SetIntFormat" -> SetIntFormat(s, value, scope)
      [] writer = "SetIndent" -> SetIndent(s, value, scope)
      [] writer = "SetPreCommentIndent" ->
             SetPreCommentIndent(s, value, scope)
      [] writer = "SetPostCommentIndent" ->
             SetPostCommentIndent(s, value, scope)
      [] writer = "SetSeqFlowType" -> SetFlowType(s, "Seq", value, scope)
      [] writer = "SetMapFlowType" -> SetFlowType(s, "Map", value, scope)
      [] writer = "SetMapKeyFormat" -> SetMapKeyFormat(s, value, scope)
      [] writer = "SetFloatPrecision" -> SetFloatPrecision(s, value, scope)
      [] writer = "SetDoublePrecision" ->
             SetDoublePrecision(s, value, scope)

SetAct(writer, value, scope) ==
    Write(Field(writer), value, scope, Call(Cur, writer, value, scope))

\* ---------------------------------------------------------- specifications
\* Spec: containers of both kinds, nodes and indent writes.
IndentInputs == {4}

Next ==
    \/ Nodes(MaxNodes, MaxNodes) /\ StartedNodeAct
    \/ Nodes(MaxNodes, MaxNodes) /\ StartedScalarAct
    \/ \E type \in GroupTypes :
           Nodes(MaxNodes, MaxNodes) /\ Depth(MaxDepth)
               /\ StartedGroupAct(type)
    \/ \E type \in GroupTypes : EndedGroupAct(type)
    \/ \E value \in IndentInputs, scope \in Scopes :
           SetIndentAct(value, scope)

Spec == Init /\ [][Next]_vars

\* SpecFlow: containers three and more deep, ForceFlow and
\* global writes of the two layout settings.
FlowDepth == MaxDepth + 1

NextFlow ==
    \/ ForceFlowAct
    \/ Nodes(MaxNodes, MaxNodes) /\ StartedScalarAct
    \/ \E type \in GroupTypes :
           Nodes(MaxNodes, MaxNodes) /\ Depth(FlowDepth)
               /\ StartedGroupAct(type)
    \/ \E type \in GroupTypes : EndedGroupAct(type)
    \/ \E groupType \in GroupTypes, value \in {"Block", "Flow"} :
           SetFlowTypeAct(groupType, value, "Global")

SpecFlow == Init /\ [][NextFlow]_vars

\* SpecMap: the children of a group, counted far enough for the key/value
\* parity to repeat.
MapChildren == MaxNodes + 3

NextMap ==
    \/ SetLongKeyAct
    \/ Nodes(MaxNodes, MapChildren) /\ StartedNodeAct
    \/ Nodes(MaxNodes, MapChildren) /\ StartedScalarAct
    \/ \E type \in GroupTypes :
           Nodes(MaxNodes, MapChildren) /\ Depth(MaxDepth)
               /\ StartedGroupAct(type)
    \/ \E type \in GroupTypes : EndedGroupAct(type)

SpecMap == Init /\ [][NextMap]_vars

\* SpecSettings: indent writes of both scopes in nested containers.
NextSettings ==
    \/ m_groups # <<>> /\ Nodes(MaxNodes, MaxNodes) /\ StartedScalarAct
    \/ Nodes(MaxNodes, MaxNodes) /\ Depth(MaxDepth) /\ StartedGroupAct("Seq")
    \/ \E type \in GroupTypes : m_groups # <<>> /\ EndedGroupAct(type)
    \/ SetIndentAct(4, "Global")
    \/ SetIndentAct(8, "Local")

SpecSettings == Init /\ [][NextSettings]_vars

\* the settings that a change log of the state has an entry for
Touched(s) ==
    {e.name : e \in s.m_globalModifiedSettings \cup s.m_modifiedSettings
                  \cup UNION {s.m_groups[i].modifiedSettings :
                                  i \in 1..Len(s.m_groups)}}

\* the values each writer is called with: one it accepts, which is not the
\* default, and values it rejects
Inputs(writer) ==
    CASE writer = "SetOutputCharset" -> {"EscapeNonAscii", "Auto"}
      [] writer = "SetStringFormat" -> {"Literal", "Flow"}
      [] writer = "SetBoolFormat" -> {"YesNoBool", "ShortBool"}
      [] writer = "SetBoolLengthFormat" -> {"ShortBool", "UpperCase"}
      [] writer = "SetBoolCaseFormat" -> {"CamelCase", "CamelNull"}
      [] writer = "SetNullFormat" -> {"LowerNull", "LowerCase"}
      [] writer = "SetIntFormat" -> {"Hex", "Block"}
      [] writer = "SetIndent" -> {0, 1, 4}
      [] writer = "SetPreCommentIndent" -> {0, 3}
      [] writer = "SetPostCommentIndent" -> {0, 2}
      [] writer = "SetSeqFlowType" -> {"Flow", "LongKey"}
      [] writer = "SetMapFlowType" -> {"Flow", "Auto"}
      [] writer = "SetMapKeyFormat" -> {"LongKey", "Dec"}
      [] writer = "SetFloatPrecision" ->
             {FloatMaxDigits10 - 3, FloatMaxDigits10 + 1}
      [] writer = "SetDoublePrecision" ->
             {DoubleMaxDigits10 - 2, DoubleMaxDigits10 + 1}

\* SpecWriters: every setting writer, with legal and illegal values, at both
\* scopes, before and after a top-level container is opened (a writer only
\* tells an empty stack from a non-empty one); at most MaxTouched settings
\* are written.
NextWriters ==
    \/ m_groups = <<>> /\ Nodes(MaxNodes, MaxNodes) /\ StartedGroupAct("Seq")
    \/ \E writer \in Writers, scope \in Scopes :
           \E value \in Inputs(writer) :
               /\ Cardinality(Touched(Call(Cur, writer, value, scope).s))
                      <= MaxTouched
               /\ SetAct(writer, value, scope)

SpecWriters == Init /\ [][NextWriters]_vars

\* SpecHold: indent writes of both scopes around sequences nested one
\* deeper than elsewhere, all closed by calls of their kind.
HoldDepth == MaxDepth + 1

NextHold ==
    \/ Nodes(MaxNodes, MaxNodes) /\ Depth(HoldDepth) /\ StartedGroupAct("Seq")
    \/ m_groups # <<>> /\ EndedGroupAct("Seq")
    \/ SetIndentAct(4, "Global")
    \/ SetIndentAct(8, "Local")

SpecHold == Init /\ [][NextHold]_vars

\* SpecTop: Local indent writes before, in and between top-level nodes, with
\* closes of either kind.
NestDepth == MaxDepth + 1

NestChildren == MaxNodes + 1

\* nests three deep with a second child per container, one close of the
\* wrong kind and Local indent writes: the stacks LastIndent is asked about
NextNest ==
    \/ Nodes(MaxNodes, NestChildren) /\ Depth(NestDepth)
           /\ StartedGroupAct("Seq")
    \/ m_groups # <<>> /\ EndedGroupAct("Seq")
    \/ Len(m_groups) >= 2 /\ ~mismatched /\ EndedGroupAct("Map")
    \/ SetIndentAct(8, "Local")

SpecNest == Init /\ [][NextNest]_vars

\* closes with no group open, met with an anchor or a tag pending, settings
\* written and, after a close of the wrong kind, Local changes pending
NextEmpty ==
    \/ SetAnchorAct
    \/ SetTagAct
    \/ Nodes(MaxNodes, MaxNodes) /\ Depth(MaxDepth) /\ StartedGroupAct("Seq")
    \/ \E type \in GroupTypes : EndedGroupAct(type)
    \/ SetIndentAct(8, "Local")

SpecEmpty == Init /\ [][NextEmpty]_vars

TopDocs == MaxNodes + 1

NextTop ==
    \/ Nodes(TopDocs, MaxNodes) /\ StartedScalarAct
    \/ Nodes(TopDocs, MaxNodes) /\ Depth(MaxDepth) /\ StartedGroupAct("Seq")
    \/ \E type \in GroupTypes : m_groups # <<>> /\ EndedGroupAct(type)
    \/ \E value \in {4, 8} : SetIndentAct(value, "Local")

SpecTop == Init /\ [][NextTop]_vars

\* SpecError: the closes and the marks that raise errors.
NextError ==
    \/ SetAnchorAct
    \/ SetAliasAct
    \/ SetTagAct
    \/ SetNonContentAct
    \/ Nodes(MaxNodes, MaxNodes) /\ StartedScalarAct
    \/ \E type \in GroupTypes :
           Nodes(MaxNodes, MaxNodes) /\ Depth(MaxDepth)
               /\ StartedGroupAct(type)
    \/ \E type \in GroupTypes : EndedGroupAct(type)

SpecError == Init /\ [][NextError]_vars

\* --------------------------------------------------------------- the claims
RECURSIVE SumIndent(_)
SumIndent(groups) ==
    IF groups = <<>> THEN 0
    ELSE back(groups).indent + SumIndent(pop_back(groups))

\* C1: after a well-nested sequence of containerStarted/containerEnded calls
\* (every close of the kind of the innermost open container), interleaved
\* with nodes, scalars and indent writes, that has closed all it opened, the
\* group stack is empty and m_curIndent is 0; while it runs the stack holds
\* exactly the containers still open.
C1_WellNestedUnwinds ==
    wellNested =>
        /\ Len(m_groups) = Len(opened)
        /\ \A i \in 1..Len(opened) : m_groups[i].type = opened[i]
        /\ (opened = <<>> => m_groups = <<>> /\ m_curIndent = 0)

\* a nest two deep, opened under an indent other than the default, has been
\* closed again
C1_Witness ==
    /\ wellNested
    /\ opened = <<>>
    /\ deepest >= 2
    /\ m_docCount >= 1
    /\ settings.m_indent # 2

\* C10 as stated: m_curIndent is the sum of indent over all open groups.
C10_AsStated == m_curIndent = SumIndent(m_groups)

\* C10 amended: m_curIndent is the sum of indent over the groups below the
\* innermost one, plus, for every close of the wrong kind so far, the indent
\* of the group that close left innermost (it returns before subtracting).
C10_SumBelowTop ==
    m_curIndent = SumIndent(pop_back(m_groups)) + skipped

\* two groups with different indents are open, and the sum is not zero
C10_Witness ==
    /\ Len(m_groups) = 2
    /\ ~mismatched
    /\ m_groups[1].indent # m_groups[2].indent
    /\ m_curIndent = m_groups[1].indent

\* C4: if any open group is Flow-styled (by the settings when it was opened
\* or by ForceFlow), every group above it is Flow-styled too and GetFlowType
\* answers Flow for sequences and for mappings, whatever m_seqFmt and
\* m_mapFmt say.
C4_FlowPropagates ==
    \A i \in 1..Len(m_groups) :
        m_groups[i].flowType = "Flow" =>
            /\ \A j \in i..Len(m_groups) : m_groups[j].flowType = "Flow"
            /\ GetFlowType(Cur, "Seq") = "Flow"
            /\ GetFlowType(Cur, "Map") = "Flow"

\* a block group, a flow group in it and a third group in that one, while
\* both layout settings ask for Block
C4_Witness ==
    /\ Len(m_groups) = 3
    /\ m_groups[1].flowType = "Block"
    /\ m_groups[2].flowType = "Flow"
    /\ m_groups[3].flowType = "Flow"
    /\ settings.m_seqFmt = "Block"
    /\ settings.m_mapFmt = "Block"

\* a step that starts a node
NodeStarts ==
    \/ StartedNodeAct
    \/ StartedScalarAct
    \/ \E type \in GroupTypes : StartedGroupAct(type)

\* C5: a Mapping group is pushed with childCount 0 and longKey false; every
\* node started with it on top adds exactly 1 to its childCount; when the
\* count becomes even its longKey is false; a longKey that is set stays set
\* through a node start that makes the count odd, and nothing but a node
\* start on the group changes its count or clears its longKey.
C5_Step ==
    LET n == Len(m_groups)
    IN /\ (Len(m_groups') = n + 1 /\ back(m_groups').type = "Map") =>
              /\ back(m_groups').childCount = 0
              /\ ~back(m_groups').longKey
       /\ (n > 0 /\ NodeStarts /\ m_groups[n].type = "Map") =>
              /\ m_groups'[n].childCount = m_groups[n].childCount + 1
              /\ (m_groups'[n].childCount % 2 = 0 => ~m_groups'[n].longKey)
              /\ (m_groups'[n].childCount % 2 = 1 =>
                      m_groups'[n].longKey = m_groups[n].longKey)
       /\ \A i \in 1..n :
              (i <= Len(m_groups') /\ m_groups[i].type = "Map"
                  /\ ~(i = n /\ NodeStarts)) =>
                  /\ m_groups'[i].childCount = m_groups[i].childCount
                  /\ (m_groups[i].longKey => m_groups'[i].longKey)

C5_KeyValueParity == [][C5_Step]_vars

\* a mapping whose second key carries the long-key mark, and one whose
\* second pair is complete
C5_Witness ==
    /\ Len(m_groups) = 2
    /\ m_groups[1].type = "Map" /\ m_groups[1].childCount = 3
    /\ m_groups[1].longKey
    /\ m_groups[2].type = "Map" /\ m_groups[2].childCount = 4
    /\ ~m_groups[2].longKey

\* C6: a close with no group open records the unexpected-end error of its
\* kind and leaves the stack empty; a close of the wrong kind records
\* the unmatched-group error and pops exactly the innermost group.  An error
\* is recorded by setting the error flag, and its message is the one that
\* stands unless an earlier error stands already.
C6_Step ==
    \A type \in GroupTypes :
        EndedGroupAct(type) =>
            /\ m_groups = <<>> =>
                   /\ ~m_isGood'
                   /\ m_groups' = <<>>
                   /\ m_isGood =>
                          m_lastError' = IF type = "Seq"
                                         THEN UNEXPECTED_END_SEQ
                                         ELSE UNEXPECTED_END_MAP
            /\ (m_groups # <<>> /\ back(m_groups).type # type) =>
                   /\ ~m_isGood'
                   /\ m_groups' = pop_back(m_groups)
                   /\ (m_isGood /\ ~m_hasTag /\ ~m_hasAnchor) =>
                          m_lastError' = UNMATCHED_GROUP_TAG

C6_CloseErrors == [][C6_Step]_vars

\* a close of the wrong kind was the first error, and the group below the
\* popped one is still open
C6_Witness ==
    /\ m_lastError = UNMATCHED_GROUP_TAG
    /\ mismatched
    /\ Len(m_groups) = 1

\* C8: once the error flag is set it stays set and the message never
\* changes; a close that finds a pending tag (or, without one, a pending
\* anchor) as the first error keeps that message whatever else the same
\* call finds.
C8_Step ==
    /\ ~m_isGood => (~m_isGood' /\ m_lastError' = m_lastError)
    /\ \A type \in GroupTypes :
           (EndedGroupAct(type) /\ m_groups # <<>> /\ m_isGood) =>
               /\ m_hasTag => m_lastError' = INVALID_TAG
               /\ (~m_hasTag /\ m_hasAnchor) =>
                      m_lastError' = INVALID_ANCHOR

Overridden(name) ==
    \/ Has(m_modifiedSettings, name)
    \/ \E i \in 1..Len(m_groups) : Has(m_groups[i].modifiedSettings, name)

\* C2 as stated: right after a containerEnded pops container C, every
\* setting written with Local scope while C was innermost has the value it
\* had just before that write.
C2_AsStated ==
    \A c \in closed : settings[c.write.name] = c.write.old

\* what the code does guarantee: right after a containerEnded of C's kind
\* pops container C, a setting written with Local scope while C was
\* innermost has the value it had just before that write, if that was the
\* only Local write to the setting since the last scalarStarted,
\* containerStarted or containerEnded of the closed container's kind.
SingleWriteReverts ==
    \A c \in closed :
        (c.matched /\ c.write.n = 1) =>
            settings[c.write.name] = c.write.old

\* a nested container was just closed by a call of its kind after one Local
\* write in it that changed the setting
SingleWriteReverted ==
    \E c \in closed :
        /\ c.matched
        /\ c.write.n = 1
        /\ c.write.new # c.write.old
        /\ c.write.depth = Len(m_groups) + 1
        /\ m_groups # <<>>

\* C3 as stated: a setting that was written with Global scope has the value
\* of the last such write whenever no Local override of it is in scope.
C3_AsStated ==
    \A name \in SettingNames :
        (Has(m_globalModifiedSettings, name) /\ ~Overridden(name)) =>
            settings[name] = lastGlobal[name]

\* the indent example, step by step
C9_Example ==
    /\ exampleStep = 2 => back(m_groups).indent = 4
    /\ exampleStep = 3 =>
           back(m_groups).indent = 4 /\ settings.m_indent = 8
    /\ exampleStep = 4 =>
           /\ back(m_groups).indent = 8
           /\ m_groups[Len(m_groups) - 1].indent = 4
    /\ exampleStep = 5 =>
           settings.m_indent = 4 /\ back(m_groups).indent = 4

\* a step that pushes a group gives it the m_indent setting of that moment
C9_Step ==
    Len(m_groups') > Len(m_groups) =>
        back(m_groups').indent = settings.m_indent

\* C9: a group's indent is the value of the m_indent setting when it is
\* opened, and after Global indent 4, containerStarted, Local indent 8,
\* containerStarted (which captures 8) and containerEnded of the nested
\* container, the m_indent setting is 4 and the outer group's indent is 4.
C9_IndentCaptured == []C9_Example /\ [][C9_Step]_vars

\* the example has run to its end
C9_Witness ==
    /\ exampleStep = 5
    /\ m_groups # <<>>
    /\ m_isGood

\* the values the contract allows each writer
Legal(writer, value) ==
    CASE writer = "SetOutputCharset" ->
             value \in {"EmitNonAscii", "EscapeNonAscii", "EscapeAsJson"}
      [] writer = "SetStringFormat" ->
             value \in {"Auto", "SingleQuoted", "DoubleQuoted", "Literal"}
      [] writer = "SetBoolFormat" ->
             value \in {"OnOffBool", "TrueFalseBool", "YesNoBool"}
      [] writer = "SetBoolLengthFormat" -> value \in {"LongBool", "ShortBool"}
      [] writer = "SetBoolCaseFormat" ->
             value \in {"UpperCase", "LowerCase", "CamelCase"}
      [] writer = "SetNullFormat" ->
             value \in {"LowerNull", "UpperNull", "CamelNull", "TildeNull"}
      [] writer = "SetIntFormat" -> value \in {"Dec", "Hex", "Oct"}
      [] writer = "SetIndent" -> ~(value <= 1)
      [] writer \in {"SetPreCommentIndent", "SetPostCommentIndent"} ->
             value # 0
      [] writer \in {"SetSeqFlowType", "SetMapFlowType"} ->
             value \in {"Block", "Flow"}
      [] writer = "SetMapKeyFormat" -> value \in {"Auto", "LongKey"}
      [] writer = "SetFloatPrecision" -> ~(value > FloatMaxDigits10)
      [] writer = "SetDoublePrecision" -> ~(value > DoubleMaxDigits10)

C7_Step ==
    \A writer \in Writers, scope \in Scopes :
        \A value \in Inputs(writer) :
            SetAct(writer, value, scope) =>
                IF Legal(writer, value)
                THEN ret' /\ settings'[Field(writer)] = value
                ELSE /\ ~ret'
                     /\ UNCHANGED <<settings, m_modifiedSettings,
                                    m_globalModifiedSettings, m_groups,
                                    m_isGood, m_lastError>>

\* C7: a setting writer called with an illegal value returns false and
\* leaves the settings, both change logs, the group stack and the error
\* flag as they were; called with a legal value it returns true and the
\* setting has that value.
C7_WritersValidate == [][C7_Step]_vars

\* a writer has just refused a value inside a container in which settings
\* were written at both scopes
C7_Witness ==
    /\ ~ret
    /\ m_groups # <<>>
    /\ m_modifiedSettings # {}
    /\ m_globalModifiedSettings # {}
    /\ settings # DefaultSettings

C11_Step ==
    \A type \in GroupTypes :
        (m_groups # <<>> /\ back(m_groups).type # type
             /\ EndedGroupAct(type)) =>
            LET matching == EndedGroup(Cur, back(m_groups).type)
            IN /\ m_curIndent' = matching.m_curIndent
               /\ settings' = matching.settings
               /\ m_modifiedSettings' = matching.m_modifiedSettings

\* C11 as stated: a containerEnded whose kind is not the top group's leaves
\* m_curIndent, the settings and the pending local changes as a
\* containerEnded of the top group's kind would: the new top's indent is
\* subtracted, the global log is replayed, the pending changes are cleared.
C11_AsStated == [][C11_Step]_vars

\* C12 as stated: after Global indent 4, containerStarted, Local indent 8,
\* containerStarted of C (which takes the Local override over) and a nested
\* container opened and closed inside C, with no other write to m_indent,
\* the m_indent setting still has the Local value 8.
C12_AsStated == exampleStep = 7 => settings.m_indent = 8

\* C13 as stated: a setting whose last write was a Local write made with no
\* group open has the value of the last write with lasting effect, whatever
\* scalarStarted, containerStarted and containerEnded calls came after it.
C13_AsStated ==
    \A name \in promoted : settings[name] = lastGlobal[name]

\* a step that pops a group (only EndedGroup does) leaves no flag set
C14_Step ==
    Len(m_groups') < Len(m_groups) =>
        /\ ~m_hasAnchor'
        /\ ~m_hasAlias'
        /\ ~m_hasTag'
        /\ ~m_hasNonContent'

\* C14 as stated: after a containerEnded that pops a group, of its kind or
\* not, m_hasAnchor, m_hasAlias, m_hasTag and m_hasNonContent are all false.
C14_AsStated == [][C14_Step]_vars

\* C15 as stated: with no group open the stack-top queries answer 0, false,
\* 0, NoType and NoType.
C15_AsStated ==
    m_groups = <<>> =>
        /\ CurGroupChildCount(Cur) = 0
        /\ ~CurGroupLongKey(Cur)
        /\ CurGroupIndent(Cur) = 0
        /\ CurGroupFlowType(Cur) = "NoType"
        /\ CurGroupType(Cur) = "NoType"

\* C15 amended: with no group open CurGroupChildCount answers m_docCount,
\* the number of top-level nodes started (at least 1 once a container has
\* been opened), and the other queries answer false, 0, NoType and NoType.
C15_Fallbacks ==
    m_groups = <<>> =>
        /\ CurGroupChildCount(Cur) = m_docCount
        /\ deepest > 0 => CurGroupChildCount(Cur) >= 1
        /\ ~CurGroupLongKey(Cur)
        /\ CurGroupIndent(Cur) = 0
        /\ CurGroupFlowType(Cur) = "NoType"
        /\ CurGroupType(Cur) = "NoType"

\* nested containers were opened and closed, and no group is open
C15_Witness ==
    /\ m_groups = <<>>
    /\ deepest >= 2
    /\ m_docCount >= 1
    /\ m_isGood

\* C16 as stated: LastIndent is 0 with fewer than two groups open, and with
\* two or more it is m_curIndent minus the indent of the second group from
\* the top, which equals the indent of the innermost group.
C16_AsStated ==
    /\ Len(m_groups) <= 1 => LastIndent(Cur) = 0
    /\ Len(m_groups) >= 2 =>
           /\ LastIndent(Cur) = m_curIndent - m_groups[Len(m_groups) - 1].indent
           /\ LastIndent(Cur) = back(m_groups).indent

\* C16 amended: LastIndent is 0 with fewer than two groups open, and with
\* two or more it is m_curIndent minus the indent of the second group from
\* the top, which equals the sum of indent over the groups below that second
\* group plus, for every close of the wrong kind so far, the indent of the
\* group that close left innermost.
C16_LastIndent ==
    /\ Len(m_groups) <= 1 => LastIndent(Cur) = 0
    /\ Len(m_groups) >= 2 =>
           /\ LastIndent(Cur) = m_curIndent - m_groups[Len(m_groups) - 1].indent
           /\ LastIndent(Cur) =
                  SumIndent(pop_back(pop_back(m_groups))) + skipped

\* three groups are open, the innermost two with different indents, after a
\* close of the wrong kind, and LastIndent is not zero
C16_Witness ==
    /\ Len(m_groups) = 3
    /\ m_groups[2].indent # m_groups[3].indent
    /\ skipped > 0
    /\ LastIndent(Cur) > skipped

C17_Step ==
    \A type \in GroupTypes :
        (m_groups = <<>> /\ EndedGroupAct(type)) =>
            /\ m_groups' = <<>>
            /\ m_curIndent' = m_curIndent
            /\ m_docCount' = m_docCount
            /\ settings' = settings
            /\ m_modifiedSettings' = m_modifiedSettings
            /\ m_globalModifiedSettings' = m_globalModifiedSettings
            /\ m_hasAnchor' = m_hasAnchor
            /\ m_hasAlias' = m_hasAlias
            /\ m_hasTag' = m_hasTag
            /\ m_hasNonContent' = m_hasNonContent
            /\ ~assertFailed'
            /\ ~m_isGood'
            /\ m_lastError' \notin {INVALID_ANCHOR, INVALID_TAG}
                   \/ (~m_isGood /\ m_lastError' = m_lastError)

\* C17: a containerEnded with no group open changes nothing but the error
\* flag and message: the stack stays empty, m_curIndent, m_docCount, the
\* settings, both change logs and the four flags keep their values, and the
\* call records neither INVALID_ANCHOR nor INVALID_TAG.
C17_EmptyCloseOnlyErrs == [][C17_Step]_vars

\* a close with no group open was the first error, the anchor and the tag
\* that were pending are still pending and the indent written is still set
C17_Witness ==
    /\ m_groups = <<>>
    /\ m_lastError \in {UNEXPECTED_END_SEQ, UNEXPECTED_END_MAP}
    /\ m_hasAnchor
    /\ m_hasTag
    /\ settings.m_indent = 8

C18_Step ==
    StartedScalarAct => \A w \in localSeen : settings'[w.name] = w.old

C19_NoUnderflow ==
    /\ ~assertFailed
    /\ m_curIndent >= 0
    /\ LastIndent(Cur) >= 0
    /\ Len(m_groups) >= 2 =>
           m_curIndent >= m_groups[Len(m_groups) - 1].indent

\* after a close with no group open, a nest two deep was unwound by a close
\* of the wrong kind and a close of the right kind, which left a running
\* indent that is not zero
C19_Witness ==
    /\ mismatched
    /\ m_lastError \in {UNEXPECTED_END_SEQ, UNEXPECTED_END_MAP}
    /\ m_groups = <<>>
    /\ m_curIndent > 0
    /\ deepest >= 2

====
